---------------------------- MODULE Spec2Model ----------------------------
(***************************************************************************)
(* express-zod-openapi: a typed router over Express (router.ts) and the    *)
(* OpenAPI document generator (openapi.ts).                                *)
(*                                                                         *)
(* Five specifications share the variables of this module:                 *)
(*   Spec        one invocation after another of the wrapper that          *)
(*               TypedRouter.register mounts for a route (router.ts)       *)
(*   SpecDoc     route declarations on a TypedRouter and buildOpenApi      *)
(*   SpecRouter  a TypedRouter instance: route, get, post, put, patch,     *)
(*               delete, register, getRoutes and buildOpenApi              *)
(*   SpecConv    zodToOpenApiSchema applied to one schema tree             *)
(*   SpecSteps   the calls one zodToOpenApiSchema call makes, one by one   *)
(***************************************************************************)
EXTENDS Integers, Sequences, FiniteSets, TLC

VARIABLES
  \* ---- one invocation of `wrapped` (register, lines 469-508) ----
  pc,          \* position in the wrapper
  route,       \* the route definition the closure captured (request, responses)
  req,         \* req.params / req.query / req.body / req.headers as received
  parsed,      \* the ParsedRequest being built (fields filled in order)
  received,    \* the `parsed` argument each handler invocation got
  result,      \* the awaited handler result
  statusCode,  \* res.statusCode
  status,      \* local const status
  schema,      \* local const schema
  body,        \* the value about to be given to res.json
  written,     \* what the wrapper wrote: res.status(..) and res.json(..) calls
  nextCalls,   \* the arguments of every next(..) call, in order
  trace,       \* history: the steps of this invocation, in order
  \* ---- a TypedRouter and the documents built from it ----
  routes,      \* TypedRouter.routes
  declared,    \* history: every definition passed to route(), in order
  mounted,     \* app[method](path, wrapped) calls, in order
  copy,        \* the last array returned by getRoutes(), as the caller holds it
  doc,         \* the last document returned by buildOpenApi
  built,       \* history: the route list and options of that buildOpenApi call
  \* ---- one zodToOpenApiSchema call ----
  zin,         \* the schema (and whether a context is given)
  zout         \* what the call returned

callVars == <<pc, route, req, parsed, received, result, statusCode, status, schema,
              body, written, nextCalls, trace>>
docVars  == <<routes, declared, mounted, copy, doc, built>>
convVars == <<zin, zout>>
vars     == <<callVars, docVars, convVars>>

(***************************************************************************)
(* Values                                                                  *)
(***************************************************************************)
\* JavaScript undefined: an absent schema, an unset field, a handler that returns nothing
Undefined == "undefined"

Fields == <<"params", "query", "body", "headers">>

\* Express's initial res.statusCode
DefaultStatusCode == 200

(***************************************************************************)
(* The validation library, as the wrapper uses it: schema.parse(value)     *)
(* either returns the parse output or throws a ZodError.  A schema is      *)
(* known here by what it accepts and what it returns for it; the output may*)
(* differ from the input (defaults, coercion, stripped keys).              *)
(***************************************************************************)
InputSchema == "In"
ResponseSchemaIds == {"A", "B"}

\* what each schema accepts, and the output it gives for it
ParseTable ==
  [ In |-> [ raw |-> "clean" ],
    A  |-> [ a |-> "a_out", ab |-> "ab_outA" ],
    B  |-> [ b |-> "b_out", ab |-> "ab_outB" ] ]

ParseOk(s, v) == v \in DOMAIN ParseTable[s]
ParseOut(s, v) == ParseTable[s][v]

RawValues == {"raw", "bad"}
HandlerResults == {Undefined, "a", "b", "ab"}
\* status codes a route declares a response schema for
DeclaredStatusCodes == {200, 201, 404}
\* status codes a handler may leave on the response
HandlerStatusCodes == {200, 201, 204, 404}

\* request: for each field the declared schema or Undefined
RequestSchemas == [params : {Undefined, InputSchema}, query : {Undefined, InputSchema},
                   body : {Undefined, InputSchema}, headers : {Undefined, InputSchema}]
\* responses: Record<number, ZodTypeAny>
ResponseSchemas == UNION { [S -> ResponseSchemaIds] : S \in SUBSET DeclaredStatusCodes }
CallRoutes == [request : RequestSchemas, responses : ResponseSchemas]
Requests == [params : RawValues, query : RawValues, body : RawValues, headers : RawValues]

NoParsed == [params |-> Undefined, query |-> Undefined, body |-> Undefined,
             headers |-> Undefined]
NoRoute == [request |-> [params |-> Undefined, query |-> Undefined, body |-> Undefined,
                         headers |-> Undefined],
            responses |-> <<>>]

\* the errors that reach the catch clause
ZodError(stage) == <<"ZodError", stage>>
HandlerError == <<"Error", "handler">>
JsonError == <<"Error", "res.json">>
\* next() with no argument
NoArg == <<"next()">>

(***************************************************************************)
(* router.ts: first2xxSchema and the status/schema selection               *)
(***************************************************************************)
Min(S) == CHOOSE x \in S : \A y \in S : x <= y

\* router.ts first2xxSchema: the schema of the lowest declared 2xx code
first2xxSchema(responses) ==
  LET statusCodes == { n \in DOMAIN responses : n >= 200 /\ n < 300 }
  IN  IF statusCodes # {} THEN responses[Min(statusCodes)] ELSE Undefined

\* responses[k], Undefined when no such key
Lookup(responses, k) == IF k \in DOMAIN responses THEN responses[k] ELSE Undefined

\* a ?? b
Coalesce(a, b) == IF a # Undefined THEN a ELSE b

\* mutant of SelectStatus: the response's status code is used whatever it is
SelectStatusAsSet(code) == code

\* const status = res.statusCode && res.statusCode >= 200 && res.statusCode < 300
\*                  ? res.statusCode : 200
SelectStatus(code) ==
  IF code # 0 /\ code >= 200 /\ code < 300 THEN code ELSE 200

\* const schema = responses[status] ?? first2xxSchema(responses) ?? responses[200]
SelectSchema(responses, st) ==
  Coalesce(Coalesce(Lookup(responses, st), first2xxSchema(responses)),
           Lookup(responses, 200))

(***************************************************************************)
(* The wrapper `wrapped` that register mounts for a route                  *)
(***************************************************************************)
\* mutant of Catch: the error is forwarded twice
CatchTwice(err) ==
  /\ nextCalls' = nextCalls \o <<err, err>>
  /\ pc' = "done"

\* catch (err) { next(err) }
Catch(err) ==
  /\ nextCalls' = Append(nextCalls, err)
  /\ pc' = "done"

\* Express calls the wrapper of a mounted route with a request
Call ==
  /\ pc = "idle"
  /\ \E r \in CallRoutes, q \in Requests :
       /\ route' = r
       /\ req' = q
  /\ pc' = "params"
  /\ parsed' = NoParsed
  /\ received' = <<>>
  /\ result' = Undefined
  /\ statusCode' = DefaultStatusCode
  /\ status' = 0
  /\ schema' = Undefined
  /\ body' = Undefined
  /\ written' = <<>>
  /\ nextCalls' = <<>>
  /\ trace' = <<>>
  /\ UNCHANGED <<docVars, convVars>>

\* mutant of ParseField: a failed parse lets the raw value through
ParseFieldLenient(f, then) ==
  /\ pc = f
  /\ LET s == route.request[f]
     IN  /\ trace' = IF s = Undefined THEN trace ELSE Append(trace, <<"parse", f>>)
         /\ parsed' = [parsed EXCEPT ![f] = IF s # Undefined /\ ParseOk(s, req[f])
                                            THEN ParseOut(s, req[f]) ELSE req[f]]
         /\ pc' = then
  /\ UNCHANGED <<route, req, received, result, statusCode, status, schema, body, written,
                 nextCalls>>
  /\ UNCHANGED <<docVars, convVars>>

\* mutant of ParseField: the schema is applied but the handler is given the raw value
ParseFieldRaw(f, then) ==
  /\ pc = f
  /\ LET s == route.request[f]
     IN  IF s = Undefined \/ ParseOk(s, req[f])
         THEN /\ parsed' = [parsed EXCEPT ![f] = req[f]]
              /\ trace' = IF s = Undefined THEN trace ELSE Append(trace, <<"parse", f>>)
              /\ pc' = then
              /\ UNCHANGED nextCalls
         ELSE /\ trace' = Append(trace, <<"parse", f>>)
              /\ Catch(ZodError(f))
              /\ UNCHANGED parsed
  /\ UNCHANGED <<route, req, received, result, statusCode, status, schema, body, written>>
  /\ UNCHANGED <<docVars, convVars>>

\* one property of the `parsed` object literal:
\*   f: request?.f ? request.f.parse(req.f) : req.f
ParseField(f, then) ==
  /\ pc = f
  /\ LET s == route.request[f]
     IN  IF s = Undefined
         THEN /\ parsed' = [parsed EXCEPT ![f] = req[f]]
              /\ trace' = trace
              /\ pc' = then
              /\ UNCHANGED nextCalls
         ELSE /\ trace' = Append(trace, <<"parse", f>>)
              /\ IF ParseOk(s, req[f])
                 THEN /\ parsed' = [parsed EXCEPT ![f] = ParseOut(s, req[f])]
                      /\ pc' = then
                      /\ UNCHANGED nextCalls
                 ELSE /\ Catch(ZodError(f))
                      /\ UNCHANGED parsed
  /\ UNCHANGED <<route, req, received, result, statusCode, status, schema, body, written>>
  /\ UNCHANGED <<docVars, convVars>>

ParseParams  == ParseField("params", "query")
ParseQuery   == ParseField("query", "body")
ParseBody    == ParseField("body", "headers")
ParseHeaders == ParseField("headers", "handler")

\* handler({ req, res, parsed }) is called
InvokeHandler ==
  /\ pc = "handler"
  /\ received' = Append(received, parsed)
  /\ trace' = Append(trace, <<"handler">>)
  /\ pc' = "await"
  /\ UNCHANGED <<route, req, parsed, result, statusCode, status, schema, body, written,
                 nextCalls>>
  /\ UNCHANGED <<docVars, convVars>>

\* const result = await handler(..): the handler has left a status code on res
\* and returns (or resolves to) a value, or throws (or rejects)
HandlerReturns ==
  /\ pc = "await"
  /\ \E code \in HandlerStatusCodes, v \in HandlerResults :
       /\ statusCode' = code
       /\ result' = v
  /\ trace' = Append(trace, <<"result">>)
  /\ pc' = "validate"
  /\ UNCHANGED <<route, req, parsed, received, status, schema, body, written, nextCalls>>
  /\ UNCHANGED <<docVars, convVars>>

HandlerThrows ==
  /\ pc = "await"
  /\ \E code \in HandlerStatusCodes : statusCode' = code
  /\ trace' = Append(trace, <<"threw">>)
  /\ Catch(HandlerError)
  /\ UNCHANGED <<route, req, parsed, received, result, status, schema, body, written>>
  /\ UNCHANGED <<docVars, convVars>>

\* mutant of ValidateResponse: a result that fails the schema is sent as it is
ValidateResponseUnchecked ==
  /\ pc = "validate"
  /\ LET st == SelectStatus(statusCode)
         sc == SelectSchema(route.responses, st)
     IN  /\ status' = st
         /\ schema' = sc
         /\ trace' = IF sc # Undefined THEN Append(trace, <<"parse", "response">>) ELSE trace
         /\ body' = IF sc # Undefined /\ ParseOk(sc, result) THEN ParseOut(sc, result)
                    ELSE result
         /\ pc' = IF sc = Undefined /\ result = Undefined THEN "next" ELSE "write"
  /\ UNCHANGED <<route, req, parsed, received, result, statusCode, written, nextCalls>>
  /\ UNCHANGED <<docVars, convVars>>

\* lines 489-504: pick status and schema, validate the result, choose the outcome
ValidateResponse ==
  /\ pc = "validate"
  /\ LET st == SelectStatus(statusCode)
         sc == SelectSchema(route.responses, st)
     IN  /\ status' = st
         /\ schema' = sc
         /\ IF sc # Undefined
            THEN /\ trace' = Append(trace, <<"parse", "response">>)
                 /\ IF ParseOk(sc, result)
                    THEN /\ body' = ParseOut(sc, result)
                         /\ pc' = "write"
                         /\ UNCHANGED nextCalls
                    ELSE /\ Catch(ZodError("response"))
                         /\ UNCHANGED body
            ELSE /\ trace' = trace
                 /\ UNCHANGED nextCalls
                 /\ IF result # Undefined
                    THEN body' = result /\ pc' = "write"
                    ELSE UNCHANGED body /\ pc' = "next"
  /\ UNCHANGED <<route, req, parsed, received, result, statusCode, written>>
  /\ UNCHANGED <<docVars, convVars>>

\* mutant of WriteResponse: the body is sent before the status is set
WriteResponseBodyFirst ==
  /\ pc = "write"
  /\ statusCode' = status
  /\ written' = written \o << <<"json", body>>, <<"status", status>> >>
  /\ trace' = trace \o << <<"json">>, <<"status">> >>
  /\ pc' = "done"
  /\ UNCHANGED <<route, req, parsed, received, result, status, schema, body, nextCalls>>
  /\ UNCHANGED <<docVars, convVars>>

\* res.status(status).json(body); Express's res.json may throw (a body that
\* cannot be serialised, headers already sent by the handler)
WriteResponse ==
  /\ pc = "write"
  /\ statusCode' = status
  /\ \E jsonThrows \in BOOLEAN :
       IF jsonThrows
       THEN /\ written' = Append(written, <<"status", status>>)
            /\ trace' = Append(trace, <<"status">>)
            /\ Catch(JsonError)
       ELSE /\ written' = written \o << <<"status", status>>, <<"json", body>> >>
            /\ trace' = trace \o << <<"status">>, <<"json">> >>
            /\ pc' = "done"
            /\ UNCHANGED nextCalls
  /\ UNCHANGED <<route, req, parsed, received, result, status, schema, body>>
  /\ UNCHANGED <<docVars, convVars>>

\* mutant of CallNext: the wrapper ends without calling next
CallNextSkipped ==
  /\ pc = "next"
  /\ pc' = "done"
  /\ UNCHANGED <<route, req, parsed, received, result, statusCode, status, schema, body,
                 written, nextCalls, trace>>
  /\ UNCHANGED <<docVars, convVars>>

\* else { next() }
CallNext ==
  /\ pc = "next"
  /\ nextCalls' = Append(nextCalls, NoArg)
  /\ trace' = Append(trace, <<"next">>)
  /\ pc' = "done"
  /\ UNCHANGED <<route, req, parsed, received, result, statusCode, status, schema, body,
                 written>>
  /\ UNCHANGED <<docVars, convVars>>

\* the wrapper's promise settles; its locals are gone
Return ==
  /\ pc = "done"
  /\ pc' = "idle"
  /\ route' = NoRoute
  /\ req' = NoParsed
  /\ parsed' = NoParsed
  /\ received' = <<>>
  /\ result' = Undefined
  /\ statusCode' = DefaultStatusCode
  /\ status' = 0
  /\ schema' = Undefined
  /\ body' = Undefined
  /\ written' = <<>>
  /\ nextCalls' = <<>>
  /\ trace' = <<>>
  /\ UNCHANGED <<docVars, convVars>>

CallInit ==
  /\ pc = "idle"
  /\ route = NoRoute
  /\ req = NoParsed
  /\ parsed = NoParsed
  /\ received = <<>>
  /\ result = Undefined
  /\ statusCode = DefaultStatusCode
  /\ status = 0
  /\ schema = Undefined
  /\ body = Undefined
  /\ written = <<>>
  /\ nextCalls = <<>>
  /\ trace = <<>>

\* no array has been obtained from getRoutes
NoCopy == [taken |-> FALSE, shared |-> FALSE, mutated |-> FALSE, items |-> <<>>]

DocIdle ==
  /\ routes = <<>>
  /\ declared = <<>>
  /\ mounted = <<>>
  /\ copy = NoCopy
  /\ doc = <<>>
  /\ built = [done |-> FALSE]

ConvIdle ==
  /\ zin = <<>>
  /\ zout = <<>>

Init == CallInit /\ DocIdle /\ ConvIdle

Next ==
  \/ Call
  \/ ParseParams
  \/ ParseQuery
  \/ ParseBody
  \/ ParseHeaders
  \/ InvokeHandler
  \/ HandlerReturns
  \/ HandlerThrows
  \/ ValidateResponse
  \/ WriteResponse
  \/ CallNext
  \/ Return

Spec == Init /\ [][Next]_vars

(***************************************************************************)
(* openapi.ts: schemas                                                     *)
(*                                                                         *)
(* A schema is the part of a Zod schema object the generator reads:        *)
(*   typeName      _def.typeName                                           *)
(*   description   _def.description, "" when there is none                 *)
(*   openApiName   _openApi?.name as set by withSchemaName, "" when unset  *)
(* and, by kind: innerType (ZodOptional, ZodNullable, ZodDefault), schema  *)
(* (ZodEffects), type (ZodArray), shape (ZodObject: the entries of shape() *)
(* in order), options (ZodUnion), value (ZodLiteral), values (ZodEnum,     *)
(* ZodNativeEnum).  The code tests description and name for truthiness, so *)
(* the empty string and undefined behave alike.                            *)
(***************************************************************************)
NoText == ""

Leaf(t, d, n) == [typeName |-> t, description |-> d, openApiName |-> n]
Wrapper(t, inner, d, n) ==
  IF t = "ZodEffects"
  THEN [typeName |-> t, description |-> d, openApiName |-> n, schema |-> inner]
  ELSE [typeName |-> t, description |-> d, openApiName |-> n, innerType |-> inner]
ZArray(elem, d, n) ==
  [typeName |-> "ZodArray", description |-> d, openApiName |-> n, type |-> elem]
ZObject(shape, d, n) ==
  [typeName |-> "ZodObject", description |-> d, openApiName |-> n, shape |-> shape]
ZUnion(options, d, n) ==
  [typeName |-> "ZodUnion", description |-> d, openApiName |-> n, options |-> options]
ZLiteral(v) ==
  [typeName |-> "ZodLiteral", description |-> NoText, openApiName |-> NoText, value |-> v]
ZEnum(vs) ==
  [typeName |-> "ZodEnum", description |-> NoText, openApiName |-> NoText, values |-> vs]
ZNativeEnum(vs) ==
  [typeName |-> "ZodNativeEnum", description |-> NoText, openApiName |-> NoText,
   values |-> vs]

\* a JavaScript value with its typeof
Str(v) == [typeof |-> "string", v |-> v]
Num(v) == [typeof |-> "number", v |-> v]

\* withSchemaName(schema, name): sets _openApi.name on the schema object itself
withSchemaName(s, name) == [s EXCEPT !.openApiName = name]

WrapperKinds == {"ZodOptional", "ZodNullable", "ZodDefault", "ZodEffects"}
InnerOf(s) == IF s.typeName = "ZodEffects" THEN s.schema ELSE s.innerType

(***************************************************************************)
(* openapi.ts: unwrapZodType                                               *)
(***************************************************************************)
RECURSIVE UnwrapLoop(_, _, _, _, _)
\* mutant of UnwrapLoop: an optional layer marks the schema nullable as well
UnwrapLoopOptionalNullable(current, isNullable, isOptional, description, openApiName) ==
  IF current.typeName \in WrapperKinds
  THEN LET inner == InnerOf(current)
       IN  UnwrapLoop(inner,
                      isNullable \/ current.typeName \in {"ZodNullable", "ZodOptional"},
                      isOptional \/ current.typeName = "ZodOptional",
                      IF description = NoText THEN inner.description ELSE description,
                      IF openApiName = NoText THEN inner.openApiName ELSE openApiName)
  ELSE [base |-> current, isNullable |-> isNullable, isOptional |-> isOptional,
        description |-> description, openApiName |-> openApiName]

\* the while loop of unwrapZodType, one iteration per wrapper
UnwrapLoop(current, isNullable, isOptional, description, openApiName) ==
  IF current.typeName \in WrapperKinds
  THEN LET inner == InnerOf(current)
       IN  UnwrapLoop(inner,
                      isNullable \/ current.typeName = "ZodNullable",
                      isOptional \/ current.typeName = "ZodOptional",
                      IF description = NoText THEN inner.description ELSE description,
                      IF openApiName = NoText THEN inner.openApiName ELSE openApiName)
  ELSE [base |-> current, isNullable |-> isNullable, isOptional |-> isOptional,
        description |-> description, openApiName |-> openApiName]

unwrapZodType(s) == UnwrapLoop(s, FALSE, FALSE, s.description, s.openApiName)

(***************************************************************************)
(* openapi.ts: zodToOpenApiSchema                                          *)
(*                                                                         *)
(* A fragment is a function from keys to values; {} is the empty function. *)
(* A context is [present, schemas, started]: present is FALSE when the     *)
(* caller passes no context; schemas is context.components.schemas;        *)
(* started is a history: [name, schema, withContext] for every call on a   *)
(* schema that carries a name (the re-entrant asComponent call excepted), in*)
(* the order the calls began; it is kept also when no context is passed.   *)
(* The operator returns [result, context]: the fragment and the context as *)
(* the call left it.                                                       *)
(***************************************************************************)
EmptyFragment == [k \in {} |-> k]
NoContext == [present |-> FALSE, schemas |-> EmptyFragment, started |-> <<>>]
NewContext == [present |-> TRUE, schemas |-> EmptyFragment, started |-> <<>>]

RefTo(name) == "#/components/schemas/" \o name

\* if (description) x.description = description; if (isNullable) x.nullable = true
Annotate(x, description, isNullable) ==
  LET withDesc == IF description # NoText
                  THEN ("description" :> description) @@ x ELSE x
  IN  IF isNullable THEN ("nullable" :> TRUE) @@ withDesc ELSE withDesc

\* ZodNativeEnum: Object.values(def.values).filter(string or number), typed by the first
NativeEnumFragment(values) ==
  LET enumValues == SelectSeq(values, LAMBDA v : v.typeof \in {"string", "number"})
      type == IF enumValues # <<>> /\ enumValues[1].typeof = "number"
              THEN "number" ELSE "string"
  IN  [type |-> type, enum |-> enumValues]

RECURSIVE zodToOpenApiSchema(_, _, _)
RECURSIVE ConvertOptions(_, _)
RECURSIVE ConvertShape(_, _)

\* context.components.schemas[name] = c.result, in the context the conversion c left
StoreComponent(name, c) ==
  [c.context EXCEPT !.schemas = (name :> c.result) @@ c.context.schemas]

\* mutant of RegisterComponent: the entry is written on every use (last use wins)
RegisterComponentAlways(sch, name, context) ==
  StoreComponent(name, zodToOpenApiSchema(sch, context, TRUE))

\* lines 222-226: if (!schemas[name]) schemas[name] = zodToOpenApiSchema(schema, context,
\* { asComponent: true })
RegisterComponent(sch, name, context) ==
  IF name \in DOMAIN context.schemas
  THEN context
  ELSE StoreComponent(name, zodToOpenApiSchema(sch, context, TRUE))

\* mutant of UnsupportedFragment: an unknown kind is reported as a string
UnsupportedAsString == [type |-> "string"]

\* default: result = {}
UnsupportedFragment == EmptyFragment

\* mutant of ObjectFragment: required lists every field
ObjectFragmentAllRequired(shape, conv) ==
  [type |-> "object", properties |-> conv.properties,
   required |-> [i \in 1..Len(shape) |-> shape[i].key]]

\* lines 271-275: { type: 'object', properties, ...(required.length ? { required } : {}) }
ObjectFragment(shape, conv) ==
  IF conv.required # <<>>
  THEN [type |-> "object", properties |-> conv.properties, required |-> conv.required]
  ELSE [type |-> "object", properties |-> conv.properties]

\* history: a call on a schema that carries a name has begun
Enter(context, sch, name, asComponent) ==
  IF name # NoText /\ ~asComponent
  THEN [context EXCEPT !.started = Append(@, [name |-> name, schema |-> sch,
                                              withContext |-> context.present])]
  ELSE context

\* a fragment that needs no further conversion, in an unchanged context
Plain(fragment, context) == [result |-> fragment, context |-> context]
\* { type: 'array', items }
ArrayResult(items) ==
  [result |-> [type |-> "array", items |-> items.result], context |-> items.context]
ObjectResult(shape, conv) ==
  [result |-> ObjectFragment(shape, conv), context |-> conv.context]
\* { oneOf: options.map(..) }
UnionResult(conv) == [result |-> [oneOf |-> conv.results], context |-> conv.context]

\* switch (def?.typeName), lines 237-310
ConvertKind(def, context) ==
  CASE def.typeName = "ZodString" -> Plain([type |-> "string"], context)
    [] def.typeName = "ZodNumber" -> Plain([type |-> "number"], context)
    [] def.typeName = "ZodBoolean" -> Plain([type |-> "boolean"], context)
    [] def.typeName = "ZodArray" ->
         ArrayResult(zodToOpenApiSchema(def.type, context, FALSE))
    [] def.typeName = "ZodObject" ->
         ObjectResult(def.shape, ConvertShape(def.shape, context))
    [] def.typeName = "ZodUnion" -> UnionResult(ConvertOptions(def.options, context))
    [] def.typeName = "ZodLiteral" -> Plain([enum |-> <<def.value>>], context)
    [] def.typeName = "ZodEnum" ->
         Plain([type |-> "string", enum |-> def.values], context)
    [] def.typeName = "ZodNativeEnum" -> Plain(NativeEnumFragment(def.values), context)
    [] OTHER -> Plain(UnsupportedFragment, context)

\* lines 312-319: description and nullable are added to the result, which is returned
Finish(c, description, isNullable) ==
  [result |-> Annotate(c.result, description, isNullable), context |-> c.context]

\* zodToOpenApiSchema after const unwrapped = unwrapZodType(schema)
ConvertUnwrapped(sch, unwrapped, context, asComponent) ==
  IF context.present /\ unwrapped.openApiName # NoText /\ ~asComponent
  THEN [result |-> Annotate([ref \in {"$ref"} |-> RefTo(unwrapped.openApiName)],
                            unwrapped.description, unwrapped.isNullable),
        context |-> RegisterComponent(sch, unwrapped.openApiName,
                                      Enter(context, sch, unwrapped.openApiName,
                                            asComponent))]
  ELSE Finish(ConvertKind(unwrapped.base,
                          Enter(context, sch, unwrapped.openApiName, asComponent)),
              unwrapped.description, unwrapped.isNullable)

zodToOpenApiSchema(sch, context, asComponent) ==
  ConvertUnwrapped(sch, unwrapZodType(sch), context, asComponent)

\* one more converted option in front of the rest
PrependResult(head, rest) ==
  [results |-> <<head.result>> \o rest.results, context |-> rest.context]

\* options.map((o) => zodToOpenApiSchema(o, context)), left to right
ConvertOptionsFrom(options, head) ==
  PrependResult(head, ConvertOptions(Tail(options), head.context))

ConvertOptions(options, context) ==
  IF options = <<>>
  THEN [results |-> <<>>, context |-> context]
  ELSE ConvertOptionsFrom(options, zodToOpenApiSchema(Head(options), context, FALSE))

\* properties[key] = propSchema; if (!unwrappedProp.isOptional) required.push(key)
AddProperty(key, propSchema, isOptional, rest) ==
  [properties |-> rest.properties @@ (key :> propSchema),
   required |-> IF isOptional THEN rest.required ELSE <<key>> \o rest.required,
   context |-> rest.context]

\* lines 260-269 for one entry, then the rest of the loop
ConvertProperty(shape, unwrappedProp, conv) ==
  AddProperty(Head(shape).key,
              Annotate(conv.result, unwrappedProp.description, unwrappedProp.isNullable),
              unwrappedProp.isOptional,
              ConvertShape(Tail(shape), conv.context))

\* lines 258-259: const unwrappedProp = unwrapZodType(value);
\*                const propSchema = zodToOpenApiSchema(unwrappedProp.schema, context)
ConvertEntry(shape, unwrappedProp, context) ==
  ConvertProperty(shape, unwrappedProp,
                  zodToOpenApiSchema(unwrappedProp.base, context, FALSE))

\* the for loop of the ZodObject case over Object.entries(shape), lines 257-270
ConvertShape(shape, context) ==
  IF shape = <<>>
  THEN [properties |-> EmptyFragment, required |-> <<>>, context |-> context]
  ELSE ConvertEntry(shape, unwrapZodType(Head(shape).value), context)

(***************************************************************************)
(* openapi.ts: expressPathToOpenApiPath, buildParameters, buildOpenApi     *)
(*                                                                         *)
(* A path is the sequence of its characters.  A route definition is        *)
(* [method, path, request, responses, meta, handler]; request is a function*)
(* from the declared ones of params, query, body, headers to schemas,      *)
(* responses a function from status codes to schemas, meta a function from *)
(* the given ones of summary, description, tags.  A key whose value is     *)
(* undefined in the JavaScript object is absent here, as it is in the      *)
(* JSON the document is served as.                                         *)
(***************************************************************************)
RECURSIVE SegmentLength(_)
\* the length of the longest prefix of p without a "/": what [^/]+ matches
SegmentLength(p) ==
  IF p = <<>> \/ Head(p) = "/" THEN 0 ELSE 1 + SegmentLength(Tail(p))

RECURSIVE expressPathToOpenApiPath(_)
\* path.replace(/:([^/]+)/g, '{$1}')
expressPathToOpenApiPath(p) ==
  IF p = <<>> THEN <<>>
  ELSE IF Head(p) = ":" /\ SegmentLength(Tail(p)) > 0
       THEN LET n == SegmentLength(Tail(p))
            IN  <<"{">> \o SubSeq(p, 2, n + 1) \o <<"}">>
                \o expressPathToOpenApiPath(SubSeq(p, n + 2, Len(p)))
       ELSE <<Head(p)>> \o expressPathToOpenApiPath(Tail(p))

\* a context for a call that is given none: nothing is registered, the history goes on
WithoutContext(context) == [context EXCEPT !.present = FALSE]
\* the caller's context after such a call: only the history has moved
AfterCall(context, after) == [context EXCEPT !.started = after.started]

RECURSIVE ShapeParameters(_, _, _, _)

\* params.push({ name, in, required, schema }), then the rest of the loop
PushParameter(param, rest) ==
  [params |-> <<param>> \o rest.params, context |-> rest.context]

ShapeParametersFrom(shape, in, required, context, conv) ==
  PushParameter([name |-> Head(shape).key, in |-> in, required |-> required,
                 schema |-> conv.result],
                ShapeParameters(Tail(shape), in, required, AfterCall(context, conv.context)))

\* for (const [name, schema] of Object.entries(shape)) params.push({ name, in, required,
\*   schema: zodToOpenApiSchema(schema) })
ShapeParameters(shape, in, required, context) ==
  IF shape = <<>>
  THEN [params |-> <<>>, context |-> context]
  ELSE ShapeParametersFrom(shape, in, required, context,
                           zodToOpenApiSchema(Head(shape).value, WithoutContext(context),
                                              FALSE))

\* what was pushed before, then what this block pushes
PushAll(before, block) ==
  [params |-> before \o block.params, context |-> block.context]

\* one of the three blocks of buildParameters:
\*   if (req?.f && req.f instanceof ZodObject) { ... }
\* acc is what the blocks before it pushed
FieldParameters(request, f, in, required, acc) ==
  IF f \in DOMAIN request /\ request[f].typeName = "ZodObject"
  THEN PushAll(acc.params, ShapeParameters(request[f].shape, in, required, acc.context))
  ELSE acc

NoParameters(context) == [params |-> <<>>, context |-> context]

\* mutant of buildParameters: the header fields are given the location 'query'
buildParametersHeadersAsQuery(request, context) ==
  FieldParameters(request, "headers", "query", FALSE,
    FieldParameters(request, "query", "query", FALSE,
      FieldParameters(request, "params", "path", TRUE, NoParameters(context))))

\* buildParameters(req): the path, query and header parameters, in that order
\* (an empty list is returned as undefined)
buildParameters(request, context) ==
  FieldParameters(request, "headers", "header", FALSE,
    FieldParameters(request, "query", "query", FALSE,
      FieldParameters(request, "params", "path", TRUE, NoParameters(context))))

RECURSIVE SortedSeq(_)
\* the members of a set of numbers in ascending order: the order in which
\* Object.entries lists integer keys
SortedSeq(S) == IF S = {} THEN <<>> ELSE <<Min(S)>> \o SortedSeq(S \ {Min(S)})

RECURSIVE ConvertResponses(_, _, _)

\* responses[String(status)] = { description: 'Response', content: { .. schema } }
PutResponse(code, conv, rest) ==
  [responses |->
     (ToString(code) :>
        [description |-> "Response",
         content |-> [json \in {"application/json"} |-> [schema |-> conv.result]]])
     @@ rest.responses,
   context |-> rest.context]

ConvertResponsesFrom(codes, responses, conv) ==
  PutResponse(Head(codes), conv, ConvertResponses(Tail(codes), responses, conv.context))

\* for (const [status, schema] of Object.entries(route.responses)) responses[status] = ..
ConvertResponses(codes, responses, context) ==
  IF codes = <<>>
  THEN [responses |-> EmptyFragment, context |-> context]
  ELSE ConvertResponsesFrom(codes, responses,
                            zodToOpenApiSchema(responses[Head(codes)], context, FALSE))

\* mutant of PutOperation: the path item is replaced, not extended
PutOperationAlone(paths, p, method, operation) ==
  (p :> (method :> operation)) @@ paths

\* if (!paths[path]) paths[path] = {};  paths[path][method] = { ... }
PutOperation(paths, p, method, operation) ==
  (p :> ((method :> operation) @@ (IF p \in DOMAIN paths THEN paths[p] ELSE EmptyFragment)))
  @@ paths

\* const expressPath = options.basePath ? `${options.basePath}${route.path}` : route.path
\* const path = expressPathToOpenApiPath(expressPath)
DocPath(r, options) == expressPathToOpenApiPath(options.basePath \o r.path)

\* lines 63-73: const requestBody = bodySchema ? { required: true, content: .. } : undefined
RequestBody(r, context) ==
  IF "body" \in DOMAIN r.request
  THEN zodToOpenApiSchema(r.request.body, context, FALSE)
  ELSE [result |-> Undefined, context |-> context]

RequestBodyPart(r, bodyConv) ==
  IF "body" \in DOMAIN r.request
  THEN [requestBody |->
          [required |-> TRUE,
           content |-> [json \in {"application/json"} |-> [schema |-> bodyConv.result]]]]
  ELSE EmptyFragment

ParametersPart(paramConv) ==
  IF paramConv.params # <<>> THEN [parameters |-> paramConv.params] ELSE EmptyFragment

\* lines 89-96: the operation object
Operation(r, bodyConv, paramConv, respConv) ==
  [operation |-> r.meta @@ RequestBodyPart(r, bodyConv) @@ ParametersPart(paramConv)
                 @@ [responses |-> respConv.responses],
   context |-> respConv.context]

\* lines 77-87 after the body and the parameters
WithResponses(r, bodyConv, paramConv) ==
  Operation(r, bodyConv, paramConv,
            ConvertResponses(SortedSeq(DOMAIN r.responses), r.responses,
                             AfterCall(bodyConv.context, paramConv.context)))

\* line 75 after the body: const parameters = buildParameters(route.request)
WithParameters(r, bodyConv) ==
  WithResponses(r, bodyConv, buildParameters(r.request, bodyConv.context))

\* the body of the for loop of buildOpenApi for one route, lines 57-96
RouteOperation(r, context) == WithParameters(r, RequestBody(r, context))

RECURSIVE BuildPaths(_, _, _, _)

BuildPathsFrom(rs, options, paths, op) ==
  BuildPaths(Tail(rs), options,
             PutOperation(paths, DocPath(Head(rs), options), Head(rs).method, op.operation),
             op.context)

\* for (const route of typedRouter.getRoutes()) { ... }
BuildPaths(rs, options, paths, context) ==
  IF rs = <<>>
  THEN [paths |-> paths, context |-> context]
  ELSE BuildPathsFrom(rs, options, paths, RouteOperation(Head(rs), context))

\* mutant of AttachComponents: components is attached even when it is empty
AttachComponentsAlways(d, components) == [components |-> components] @@ d

\* if (Object.keys(components.schemas).length) doc.components = components
AttachComponents(d, components) ==
  IF DOMAIN components.schemas # {} THEN [components |-> components] @@ d ELSE d

\* info: { title, version, description }
Info(options) ==
  IF options.description # NoText
  THEN [title |-> options.title, version |-> options.version,
        description |-> options.description]
  ELSE [title |-> options.title, version |-> options.version]

\* lines 99-113: the document, and as history the context the generation ended with
Document(options, b) ==
  [doc |-> AttachComponents([openapi |-> "3.0.0", info |-> Info(options),
                             paths |-> b.paths],
                            [schemas |-> b.context.schemas]),
   context |-> b.context]

\* buildOpenApi(typedRouter, options), given typedRouter.getRoutes()
buildOpenApi(rs, options) ==
  Document(options, BuildPaths(rs, options, EmptyFragment, NewContext))

(***************************************************************************)
(* Specification SpecConv: one call of zodToOpenApiSchema(schema, context, *)
(* opts) on a schema tree drawn from Schemas, with or without a context    *)
(* and with or without opts.asComponent.                                   *)
(***************************************************************************)
\* longest chain of optional/nullable/default/refinement wrappers around a schema
MaxWrap == 2
\* most fields of an object schema
MaxFields == 2

Descriptions == {NoText, "d"}
SchemaNames == {NoText, "N"}
FieldKeys == <<"id", "age", "tag", "zip">>

\* ZodDate and ZodTuple stand for the kinds the switch has no case for
UnsupportedKinds == {"ZodDate", "ZodTuple"}
PlainKinds == {"ZodString", "ZodNumber", "ZodBoolean"}
SupportedKinds == PlainKinds \cup {"ZodArray", "ZodObject", "ZodUnion", "ZodLiteral",
                                   "ZodEnum", "ZodNativeEnum"}

NativeEnums ==
  { ZNativeEnum(<<Str("x"), Str("y")>>),            \* a string enum
    ZNativeEnum(<<Str("A"), Num("0")>>),            \* a numeric enum: reverse mapping first
    ZNativeEnum(<<Num("1"), Num("2")>>),            \* a const object of numbers
    ZNativeEnum(<<[typeof |-> "boolean", v |-> "true"], Num("1")>>),
    ZNativeEnum(<<>>) }

Leaves ==
  { Leaf(t, d, n) : t \in PlainKinds \cup UnsupportedKinds, d \in Descriptions,
                    n \in SchemaNames }
  \cup { ZLiteral(Str("x")), ZLiteral(Num("1")), ZEnum(<<Str("a"), Str("b")>>) }
  \cup NativeEnums

\* what the wrapper chains are built on
WrapBases ==
  { Leaf(t, d, n) : t \in {"ZodString", "ZodDate"}, d \in Descriptions, n \in SchemaNames }

\* what a wrapper layer carries of its own: nothing, a description, or a name
LayerMarks ==
  { [d |-> NoText, n |-> NoText], [d |-> "d", n |-> NoText], [d |-> NoText, n |-> "N"] }

RECURSIVE WrappedTo(_)
\* the schemas with exactly k wrappers around a member of WrapBases
WrappedTo(k) ==
  IF k = 0 THEN WrapBases
  ELSE { Wrapper(t, s, m.d, m.n) : t \in WrapperKinds, s \in WrappedTo(k - 1),
                                   m \in LayerMarks }

Wrapped == UNION { WrappedTo(k) : k \in 1..MaxWrap }

\* the schemas used as object fields, array elements and union options
Children ==
  { Leaf(t, NoText, n) : t \in {"ZodString", "ZodNumber"}, n \in SchemaNames }
  \cup { Leaf("ZodDate", NoText, NoText),
         Wrapper("ZodOptional", Leaf("ZodNumber", NoText, NoText), NoText, NoText),
         Wrapper("ZodNullable", Leaf("ZodNumber", NoText, "N"), NoText, NoText),
         Wrapper("ZodOptional", Leaf("ZodNumber", NoText, NoText), "d", "N"),
         Wrapper("ZodNullable", Leaf("ZodNumber", NoText, NoText), "d", NoText),
         Wrapper("ZodOptional", Wrapper("ZodNullable", Leaf("ZodString", "d", NoText),
                                        NoText, NoText), NoText, NoText),
         Wrapper("ZodDefault", Leaf("ZodNumber", NoText, NoText), NoText, NoText),
         ZArray(Leaf("ZodString", NoText, "N"), NoText, NoText),
         ZObject(<<[key |-> "id", value |-> Leaf("ZodString", NoText, NoText)]>>,
                 NoText, "M"),
         ZObject(<<[key |-> "id", value |-> Leaf("ZodNumber", NoText, NoText)]>>,
                 NoText, "N") }

\* the shapes of n fields: field i is named FieldKeys[i]
RECURSIVE ShapesOf(_)
ShapesOf(n) ==
  IF n = 0 THEN { <<>> }
  ELSE { Append(sh, [key |-> FieldKeys[n], value |-> c]) :
           sh \in ShapesOf(n - 1), c \in Children }

Objects ==
  { ZObject(sh, d, n) : sh \in UNION { ShapesOf(k) : k \in 0..MaxFields },
                        d \in Descriptions, n \in SchemaNames }
Arrays == { ZArray(c, d, n) : c \in Children, d \in Descriptions, n \in SchemaNames }
Unions == { ZUnion(<<a, b>>, NoText, n) : a \in Children, b \in Children,
                                          n \in SchemaNames }
\* an object, an array or a union under one wrapper
WrappedComposites ==
  { Wrapper(t, c, NoText, n) :
      t \in WrapperKinds, n \in SchemaNames,
      c \in { ZObject(sh, NoText, cn) : sh \in ShapesOf(1), cn \in SchemaNames }
            \cup { ZArray(Leaf("ZodNumber", NoText, NoText), NoText, NoText) } }

Schemas == Leaves \cup Wrapped \cup Objects \cup Arrays \cup Unions \cup WrappedComposites

ConvInit ==
  /\ zin \in [schema : Schemas, context : BOOLEAN, asComponent : BOOLEAN]
  /\ zout = [done |-> FALSE]

\* zodToOpenApiSchema(zin.schema, context, { asComponent })
Convert ==
  /\ ~zout.done
  /\ LET r == zodToOpenApiSchema(zin.schema,
                                 IF zin.context THEN NewContext ELSE NoContext,
                                 zin.asComponent)
     IN  zout' = [done |-> TRUE, result |-> r.result, context |-> r.context]
  /\ UNCHANGED <<zin, callVars, docVars>>

InitConv == CallInit /\ DocIdle /\ ConvInit
NextConv == Convert
SpecConv == InitConv /\ [][NextConv]_vars

(***************************************************************************)
(* Specification SpecSteps: the calls of zodToOpenApiSchema that one call  *)
(* on a schema tree makes, one call per step.                              *)
(*   zout.stack       the calls still to be made, the next one first, and, *)
(*                    after a re-entrant call, the assignment to           *)
(*                    context.components.schemas[name] that follows it     *)
(*   zout.registered  the names that have an entry in components.schemas   *)
(*   zout.calls       the number of calls begun                            *)
(* The engine's call stack is finite: a conversion that needs more than    *)
(* MaxPending pending steps ends in a RangeError and returns no fragment.  *)
(***************************************************************************)
\* most pending steps before the call stack is exhausted
MaxPending == 8

CallFrame(sch, asComponent) ==
  [kind |-> "call", schema |-> sch, asComponent |-> asComponent]
\* context.components.schemas[name] = <the value the re-entrant call returned>
RegisterFrame(name) == [kind |-> "register", name |-> name]

\* mutant of ReentrantCall: the re-entrant call is made without asComponent
ReentrantCallPlain(sch) == CallFrame(sch, FALSE)

\* zodToOpenApiSchema(schema, context, { asComponent: true }), line 223
ReentrantCall(sch) == CallFrame(sch, TRUE)

\* the calls the switch makes for a schema of this kind, in order (lines 248-284)
NestedCalls(def) ==
  CASE def.typeName = "ZodArray" -> <<CallFrame(def.type, FALSE)>>
    [] def.typeName = "ZodObject" ->
         [i \in DOMAIN def.shape |->
            CallFrame(unwrapZodType(def.shape[i].value).base, FALSE)]
    [] def.typeName = "ZodUnion" ->
         [i \in DOMAIN def.options |-> CallFrame(def.options[i], FALSE)]
    [] OTHER -> <<>>

\* what one call of zodToOpenApiSchema leaves to be done before it returns
CallSteps(call, unwrapped, registered) ==
  IF zin.context /\ unwrapped.openApiName # NoText /\ ~call.asComponent
  THEN IF unwrapped.openApiName \in registered
       THEN <<>>
       ELSE <<ReentrantCall(call.schema), RegisterFrame(unwrapped.openApiName)>>
  ELSE NestedCalls(unwrapped.base)

\* the next pending step: a call begins, or a component is assigned
Step ==
  /\ ~zout.done
  /\ zout.stack # <<>>
  /\ Len(zout.stack) <= MaxPending
  /\ LET top == Head(zout.stack)
     IN  IF top.kind = "register"
         THEN zout' = [zout EXCEPT !.stack = Tail(@),
                                   !.registered = @ \cup {top.name}]
         ELSE zout' = [zout EXCEPT
                         !.stack = CallSteps(top, unwrapZodType(top.schema),
                                             zout.registered) \o Tail(@),
                         !.calls = @ + 1]
  /\ UNCHANGED <<zin, callVars, docVars>>

\* the outermost call returns its fragment
ReturnFragment ==
  /\ ~zout.done
  /\ zout.stack = <<>>
  /\ zout' = [zout EXCEPT
                !.done = TRUE,
                !.results = Append(@, zodToOpenApiSchema(
                                        zin.schema,
                                        IF zin.context THEN NewContext ELSE NoContext,
                                        zin.asComponent).result)]
  /\ UNCHANGED <<zin, callVars, docVars>>

StepsInit ==
  /\ zin \in [schema : Schemas, context : BOOLEAN, asComponent : BOOLEAN]
  /\ zout = [done |-> FALSE, stack |-> <<CallFrame(zin.schema, zin.asComponent)>>,
             registered |-> {}, calls |-> 0, results |-> <<>>]

InitSteps == CallInit /\ DocIdle /\ StepsInit
NextSteps == Step \/ ReturnFragment
SpecSteps == InitSteps /\ [][NextSteps]_vars

(***************************************************************************)
(* Specification SpecDoc: a TypedRouter on which routes are declared and   *)
(* from which documents are generated.                                     *)
(***************************************************************************)
\* most routes declared on the router
MaxRoutes == 2

Field(k, v) == [key |-> k, value |-> v]
PlainString == Leaf("ZodString", NoText, NoText)
PlainNumber == Leaf("ZodNumber", NoText, NoText)

\* withSchemaName(z.object({ id: z.string(), age: z.number().optional() }), 'User')
User ==
  withSchemaName(ZObject(<<Field("id", PlainString),
                           Field("age", Wrapper("ZodOptional", PlainNumber, NoText, NoText))>>,
                         NoText, NoText), "User")
\* another schema given the same name
OtherUser == withSchemaName(PlainString, "User")
\* a schema named User with a field whose schema is also named User
NestedUser == withSchemaName(ZObject(<<Field("id", OtherUser)>>, NoText, NoText), "User")
\* withSchemaName(z.number().optional(), 'Tag'): the name is on the wrapper
Tag == withSchemaName(Wrapper("ZodOptional", PlainNumber, NoText, NoText), "Tag")
\* withSchemaName(z.number(), 'Page')
PageNumber == withSchemaName(PlainNumber, "Page")
Message == ZObject(<<Field("id", PlainString)>>, NoText, NoText)
IdParams == ZObject(<<Field("id", PlainString)>>, NoText, NoText)

NoMeta == EmptyFragment

\* request, responses and meta of the routes that are declared
RouteContents ==
  { [request |-> [params |-> IdParams],
     responses |-> (200 :> User) @@ (404 :> Message),
     meta |-> [summary |-> "s", tags |-> <<"t">>]],
    [request |-> [body |-> ZObject(<<Field("id", PlainString), Field("age", Tag)>>,
                                   NoText, NoText)],
     responses |-> (201 :> User) @@ (400 :> Message),
     meta |-> NoMeta],
    [request |-> [query |-> ZObject(<<Field("tag", OtherUser)>>, NoText, NoText),
                  headers |-> ZObject(<<Field("zip", PlainString)>>, NoText, NoText)],
     responses |-> (200 :> ZArray(Wrapper("ZodNullable", User, NoText, NoText),
                                  NoText, NoText)),
     meta |-> NoMeta],
    \* z.object({ tag: z.number() }).refine(..)
    [request |-> [query |-> Wrapper("ZodEffects",
                                    ZObject(<<Field("tag", PlainNumber)>>, NoText, NoText),
                                    NoText, NoText)],
     responses |-> (200 :> Message),
     meta |-> NoMeta],
    [request |-> EmptyFragment,
     responses |-> (200 :> NestedUser) @@ (204 :> Message),
     meta |-> NoMeta],
    [request |-> [params |-> IdParams,
                  query |-> ZObject(<<Field("id", PageNumber)>>, NoText, NoText),
                  body |-> Wrapper("ZodNullable", User, NoText, NoText)],
     responses |-> (200 :> ZUnion(<<User, OtherUser>>, NoText, NoText)),
     meta |-> NoMeta] }

\* '/:a' and '/{a}'
RoutePaths == { <<"/", ":", "a">>, <<"/", "{", "a", "}">> }
RouteMethods == {"get", "post"}
Endpoints == { e \in [method : RouteMethods, path : RoutePaths] :
                 e.method = "post" => e.path = <<"/", ":", "a">> }

\* '/:a-:b': two parameters in one segment, as in Express's '/flights/:from-:to'
RangePath == <<"/", ":", "a", "-", ":", "b">>
RangeRoute ==
  [method |-> "get", path |-> RangePath,
   request |-> [params |-> ZObject(<<Field("a", PlainString), Field("b", PlainString)>>,
                                   NoText, NoText)],
   responses |-> (200 :> Message), meta |-> NoMeta, handler |-> "handler"]

\* a route whose only use of User is responses: { 200: User.nullable() }
NullableUserRoute ==
  [method |-> "post", path |-> <<"/", "{", "a", "}">>,
   request |-> EmptyFragment,
   responses |-> (200 :> Wrapper("ZodNullable", User, NoText, NoText)),
   meta |-> NoMeta, handler |-> "handler"]

DocRoutes ==
  { [method |-> e.method, path |-> e.path, request |-> c.request,
     responses |-> c.responses, meta |-> c.meta, handler |-> "handler"] :
      e \in Endpoints, c \in RouteContents }
  \cup {RangeRoute, NullableUserRoute}

DocOptions ==
  { [title |-> "T", version |-> "1", basePath |-> <<>>, description |-> NoText],
    [title |-> "T", version |-> "1", basePath |-> <<"/", "v">>, description |-> "about"] }

\* TypedRouter.route(def): this.routes.push(def)
Route(def) ==
  /\ Len(routes) < MaxRoutes
  /\ routes' = Append(routes, def)
  /\ declared' = Append(declared, def)
  /\ UNCHANGED <<mounted, copy, doc, built, callVars, convVars>>

\* router.route({ method, path, ...options })
DeclareRoute == \E def \in DocRoutes : Route(def)

\* router.get(path, options), router.post(path, options), ..:
\*   return this.route({ method: 'get', path, ...options })
Shorthand(method, path, options) ==
  Route([method |-> method, path |-> path, request |-> options.request,
         responses |-> options.responses, meta |-> options.meta,
         handler |-> options.handler])

DeclareShorthand ==
  \E r \in DocRoutes :
    Shorthand(r.method, r.path, [request |-> r.request, responses |-> r.responses,
                                 meta |-> r.meta, handler |-> r.handler])

\* TypedRouter.getRoutes(): [...this.routes]
getRoutes == routes

\* const openApi = buildOpenApi(router, options)
Generate(options) ==
  /\ LET b == buildOpenApi(getRoutes, options)
     IN  /\ doc' = b.doc
         /\ built' = [done |-> TRUE, routes |-> routes, options |-> options,
                      context |-> b.context]
  /\ UNCHANGED <<routes, declared, mounted, copy, callVars, convVars>>

BuildOpenApi == \E options \in DocOptions : Generate(options)

DocInit ==
  /\ routes = <<>>
  /\ declared = <<>>
  /\ mounted = <<>>
  /\ copy = NoCopy
  /\ doc = <<>>
  /\ built = [done |-> FALSE]

InitDoc == CallInit /\ DocInit /\ ConvIdle
NextDoc ==
  \/ DeclareRoute
  \/ DeclareShorthand
  \/ BuildOpenApi
SpecDoc == InitDoc /\ [][NextDoc]_vars

(***************************************************************************)
(* Specification SpecRouter: the methods of one TypedRouter instance called *)
(* in any order.                                                           *)
(*   declared  history: the definitions passed to route, in call order     *)
(*   mounted   one entry per register call: the list the router held when  *)
(*             the call began (history) and the (method, path, wrapped)    *)
(*             mounts the call made on the app, in order                   *)
(*   copy      the array the last getRoutes call returned, as its caller   *)
(*             holds it; shared tells whether it is the router's own array *)
(***************************************************************************)
\* most register calls
MaxRegisters == 1

HttpMethods == {"get", "post", "put", "patch", "delete"}
\* the options of the routes declared on the router
RouterOptions ==
  [request |-> [params |-> IdParams], responses |-> (200 :> User) @@ (404 :> Message),
   meta |-> NoMeta, handler |-> "handler"]
RouterPath == <<"/", ":", "a">>
RouterRoutes ==
  { [method |-> m, path |-> RouterPath, request |-> RouterOptions.request,
     responses |-> RouterOptions.responses, meta |-> RouterOptions.meta,
     handler |-> RouterOptions.handler] : m \in HttpMethods }

\* buildOpenApi(router, { title: 'T', version: '1' })
GenerateDocument ==
  Generate([title |-> "T", version |-> "1", basePath |-> <<>>, description |-> NoText])

\* router.route(def)
RouterRoute == \E def \in RouterRoutes : Route(def)
\* router.get(path, options)
Get == Shorthand("get", RouterPath, RouterOptions)
\* router.post(path, options)
Post == Shorthand("post", RouterPath, RouterOptions)
\* router.put(path, options)
Put == Shorthand("put", RouterPath, RouterOptions)
\* router.patch(path, options)
Patch == Shorthand("patch", RouterPath, RouterOptions)
\* router.delete(path, options)
Delete == Shorthand("delete", RouterPath, RouterOptions)

RECURSIVE MountAll(_)
\* mutant of MountAll: the last route of the list is not mounted
MountAllButLast(rs) ==
  [i \in 1..(Len(rs) - 1) |->
     [method |-> rs[i].method, path |-> rs[i].path, wrapped |-> rs[i]]]

\* for (const route of this.routes) { ...; appOrRouter[method](path, wrapped) }
\* wrapped is known by the route whose request, responses and handler it closes over
MountAll(rs) ==
  IF rs = <<>> THEN <<>>
  ELSE <<[method |-> Head(rs).method, path |-> Head(rs).path, wrapped |-> Head(rs)]>>
       \o MountAll(Tail(rs))

\* router.register(app)
Register ==
  /\ Len(mounted) < MaxRegisters
  /\ mounted' = Append(mounted, [listed |-> routes, mounts |-> MountAll(routes)])
  /\ UNCHANGED <<routes, declared, copy, doc, built, callVars, convVars>>

\* mutant of Spread: the router's own array is returned
SpreadShared(rs) == [taken |-> TRUE, shared |-> TRUE, mutated |-> FALSE, items |-> rs]

\* [...this.routes]: a new array with the same entries
Spread(rs) == [taken |-> TRUE, shared |-> FALSE, mutated |-> FALSE, items |-> rs]

\* const list = router.getRoutes()
GetRoutes ==
  /\ copy' = Spread(getRoutes)
  /\ UNCHANGED <<routes, declared, mounted, doc, built, callVars, convVars>>

\* the definition the caller pushes on the array
PushedRoute == CHOOSE def \in RouterRoutes : def.method = "delete"
Reversed(rs) == [i \in DOMAIN rs |-> rs[Len(rs) + 1 - i]]
\* what the caller's list.pop(), list.push(def) or list.reverse() leaves in the array
Mutations(rs) ==
  {Reversed(rs)}
  \cup (IF rs # <<>> THEN {SubSeq(rs, 1, Len(rs) - 1)} ELSE {})
  \cup {Append(rs, PushedRoute)}

\* the caller changes the array it got from getRoutes; the router's list changes with
\* it only if the two are one array
MutateCopy ==
  /\ copy.taken
  /\ ~copy.mutated
  /\ \E items \in Mutations(copy.items) \ {copy.items} :
       /\ copy' = [copy EXCEPT !.items = items, !.mutated = TRUE]
       /\ routes' = IF copy.shared THEN items ELSE routes
  /\ UNCHANGED <<declared, mounted, doc, built, callVars, convVars>>

InitRouter == CallInit /\ DocInit /\ ConvIdle
NextRouter ==
  \/ RouterRoute
  \/ Get
  \/ Post
  \/ Put
  \/ Patch
  \/ Delete
  \/ Register
  \/ GetRoutes
  \/ MutateCopy
  \/ GenerateDocument
SpecRouter == InitRouter /\ [][NextRouter]_vars

(***************************************************************************)
(* Properties of the wrapper (specification Spec)                          *)
(***************************************************************************)
\* the handler has been invoked in this invocation of the wrapper
HandlerInvoked == received # <<>>
\* field f has a declared schema that req[f] fails
InputFails(f) == route.request[f] # Undefined /\ ~ParseOk(route.request[f], req[f])
\* the response validation of lines 497-498 ran and failed
ResponseFails == status # 0 /\ schema # Undefined /\ ~ParseOk(schema, result)
FieldNames == {"params", "query", "body", "headers"}
\* the parse of field f was reached and failed
InputFailed(f) ==
  /\ InputFails(f)
  /\ \E i \in 1..Len(trace) : trace[i] = <<"parse", f>>
NoDuplicates(s) == \A i, j \in 1..Len(s) : s[i] = s[j] => i = j

\* C1: the user handler is invoked only if every declared input schema
\* (params, query, body, headers) parsed successfully; a request whose body
\* fails its schema never reaches the handler.
C1_HandlerOnlyAfterValidInputs ==
  /\ HandlerInvoked => \A f \in FieldNames : ~InputFails(f)
  /\ (pc # "idle" /\ InputFails("body")) => ~HandlerInvoked

\* an invocation has ended for a request whose body failed its schema, after
\* params and query were accepted
C1_Witness ==
  /\ pc = "done"
  /\ InputFailed("body")
  /\ route.request.params # Undefined
  /\ nextCalls = <<ZodError("body")>>

\* C2: when the handler's return value fails the response schema selected for
\* the call, the error is passed to next and the wrapper writes neither a
\* status code nor a JSON body.
C2_InvalidResultNotSent ==
  ResponseFails =>
    /\ pc = "done"
    /\ nextCalls = <<ZodError("response")>>
    /\ written = <<>>

\* the handler returned a value that the selected schema rejects
C2_Witness ==
  /\ ResponseFails
  /\ result = "b"
  /\ schema = "A"
  /\ HandlerInvoked

\* the schema the claim C3 names: the one declared for the status code the
\* handler left on the response, else the first declared 2xx one, else that of 200
SchemaForCode(responses, code) ==
  IF code \in DOMAIN responses THEN responses[code]
  ELSE IF \E n \in DOMAIN responses : n >= 200 /\ n < 300
       THEN responses[Min({ n \in DOMAIN responses : n >= 200 /\ n < 300 })]
       ELSE IF 200 \in DOMAIN responses THEN responses[200] ELSE Undefined

\* the response validation has run and the wrapper has not yet written: res.statusCode
\* is still the status code the handler left
Validated == status # 0 /\ written = <<>>

\* C3 as stated: the return value is validated against the schema declared for
\* the status code set on the response when the handler returns (then the
\* first declared 2xx schema, then the schema of 200).
C3_Original ==
  Validated => schema = SchemaForCode(route.responses, statusCode)

\* C3 as amended: the schema is the one declared for the status the wrapper
\* goes on to write, which is the handler's status code only when that is a
\* 2xx code and 200 otherwise (then the first declared 2xx schema, then the
\* schema of 200).
C3_SchemaForWrittenStatus ==
  Validated =>
    /\ status = (IF statusCode \in 200..299 THEN statusCode ELSE 200)
    /\ schema = SchemaForCode(route.responses, status)

\* the handler left 404, schemas are declared for 404 and for 200, and the
\* result was validated against the schema of 200
C3_Witness ==
  /\ Validated
  /\ statusCode = 404
  /\ DOMAIN route.responses = {200, 404}
  /\ route.responses[404] = "B"
  /\ schema = "A"
  /\ pc = "write"

\* C4: a validation failure at any stage (params, query, body, headers, the
\* handler's return value) is forwarded by calling next exactly once with that
\* error; no parse and no handler call is repeated and nothing is written to
\* the response.
C4_FailureForwardedOnce ==
  /\ \A f \in FieldNames : InputFailed(f) =>
       /\ pc = "done"
       /\ nextCalls = <<ZodError(f)>>
       /\ written = <<>>
       /\ ~HandlerInvoked
  /\ ResponseFails =>
       /\ pc = "done"
       /\ nextCalls = <<ZodError("response")>>
       /\ written = <<>>
       /\ Len(received) = 1
  /\ NoDuplicates(trace)

\* the headers, parsed last, failed after three successful parses
C4_Witness ==
  /\ InputFailed("headers")
  /\ Len(trace) = 4
  /\ nextCalls = <<ZodError("headers")>>

\* C14: for each of params, query, body and headers, the handler receives the parse
\* output of the field's declared schema, or the request's raw value unchanged when
\* the route declares no schema for the field.
C14_HandlerReceivesParsedOrRaw ==
  HandlerInvoked =>
    \A f \in FieldNames :
      IF route.request[f] # Undefined
      THEN /\ ParseOk(route.request[f], req[f])
           /\ received[1][f] = ParseOut(route.request[f], req[f])
      ELSE received[1][f] = req[f]

\* the handler was given a parse output that differs from the raw body, and the raw
\* query of a route that declares no query schema, here a value a schema would reject
C14_Witness ==
  /\ HandlerInvoked
  /\ route.request.body # Undefined
  /\ received[1].body # req.body
  /\ route.request.query = Undefined
  /\ received[1].query = "bad"

\* the place of a step in the wrapper's code
Rank(e) ==
  CASE e = <<"parse", "params">> -> 1
    [] e = <<"parse", "query">> -> 2
    [] e = <<"parse", "body">> -> 3
    [] e = <<"parse", "headers">> -> 4
    [] e = <<"handler">> -> 5
    [] e \in {<<"result">>, <<"threw">>} -> 6
    [] e = <<"parse", "response">> -> 7
    [] e \in {<<"status">>, <<"next">>} -> 8
    [] e = <<"json">> -> 9
Happened(e) == \E i \in 1..Len(trace) : trace[i] = e

Responded ==
  /\ written = << <<"status", status>>, <<"json", body>> >>
  /\ nextCalls = <<>>
\* next() was called, with no argument, and nothing was written
PassedOn ==
  /\ nextCalls = <<NoArg>>
  /\ written = <<>>
  /\ schema = Undefined
  /\ result = Undefined
\* next(err) was called, once, and no body was written
Failed(errors) ==
  /\ Len(nextCalls) = 1
  /\ nextCalls[1] \in errors
  /\ \A i \in 1..Len(written) : written[i][1] # "json"
ExactlyOne(a, b, c) == (a /\ ~b /\ ~c) \/ (~a /\ b /\ ~c) \/ (~a /\ ~b /\ c)
ParseErrors == { ZodError(stage) : stage \in FieldNames \cup {"response"} }

\* C19 as stated: an invocation ends in exactly one of: a status and a JSON body
\* written; next() with no argument (no response schema applies and the handler
\* returned undefined); next(err) with the error raised by parsing or by the handler.
C19_Original ==
  pc = "done" =>
    ExactlyOne(Responded, PassedOn,
               Failed(ParseErrors \cup {HandlerError}) /\ written = <<>>)

\* C19 (amended): an invocation ends in exactly one of: a status and a JSON body
\* written; next() with no argument (no response schema applies and the handler
\* returned undefined); next(err) with the error raised by parsing, by the handler or
\* by writing the response, no body having been written.
C19_OneOutcome ==
  pc = "done" =>
    ExactlyOne(Responded, PassedOn, Failed(ParseErrors \cup {HandlerError, JsonError}))

\* an invocation ended by next() with no argument
C19_Witness ==
  /\ pc = "done"
  /\ PassedOn
  /\ HandlerInvoked

\* C20 as stated: when the wrapper writes a validated response, the status code it
\* writes is one whose declared response schema is the schema the body was validated
\* against.
C20_WrittenStatusDeclaresSchema ==
  (schema # Undefined /\ \E i \in 1..Len(written) : written[i] = <<"status", status>>) =>
    /\ status \in DOMAIN route.responses
    /\ route.responses[status] = schema

(***************************************************************************)
(* Properties of zodToOpenApiSchema (specification SpecConv)               *)
(***************************************************************************)
\* the call took the named branch of lines 221-235 and returned a $ref
TookRefBranch ==
  zin.context /\ ~zin.asComponent /\ unwrapZodType(zin.schema).openApiName # NoText

\* f restricted to the keys in ks
Restrict(f, ks) == [k \in DOMAIN f \cap ks |-> f[k]]

\* the schema given is itself (no wrapper around it) of a kind the switch does not handle
UnsupportedInput == zin.schema.typeName \in UnsupportedKinds

\* C9 as stated: zodToOpenApiSchema applied to a schema of a kind outside the
\* supported set returns the empty fragment {}.
C9_Original ==
  (zout.done /\ UnsupportedInput) => zout.result = EmptyFragment

\* C9 as amended: a schema of an unsupported kind converts without failing to
\* a fragment with no schema keyword: {} when it has no description and
\* { description } when it has one; when it is named and converted with a
\* context (not as a component) the call returns a $ref to the component of
\* that name, whose entry is that fragment.
C9_UnsupportedHasNoKeywords ==
  (zout.done /\ UnsupportedInput) =>
    LET d == zin.schema.description
        n == zin.schema.openApiName
        bare == IF d = NoText THEN EmptyFragment ELSE [description |-> d]
    IN  IF TookRefBranch
        THEN /\ zout.result = ([ref \in {"$ref"} |-> "#/components/schemas/" \o n] @@ bare)
             /\ DOMAIN zout.context.schemas = {n}
             /\ zout.context.schemas[n] = bare
        ELSE /\ zout.result = bare
             /\ zout.context.schemas = EmptyFragment

\* a described date schema was converted, giving { description }
C9_Witness ==
  /\ zout.done
  /\ zin.schema = Leaf("ZodDate", "d", NoText)
  /\ zout.result = [description |-> "d"]

\* the optional/nullable/default/refinement chain around s holds a ZodOptional
RECURSIVE HasOptionalLayer(_)
HasOptionalLayer(s) ==
  /\ s.typeName \in WrapperKinds
  /\ (s.typeName = "ZodOptional" \/ HasOptionalLayer(InnerOf(s)))

\* some wrapper around s (not s's underlying schema) was given a name
RECURSIVE HasNamedLayer(_)
HasNamedLayer(s) ==
  /\ s.typeName \in WrapperKinds
  /\ (s.openApiName # NoText \/ HasNamedLayer(InnerOf(s)))

\* the keys of shape whose field is not optional, in declaration order
RequiredKeys(shape) ==
  LET notOptional == SelectSeq(shape, LAMBDA e : ~HasOptionalLayer(e.value))
  IN  [i \in 1..Len(notOptional) |-> notOptional[i].key]

\* fragment frag is the conversion of an object schema with this shape
IsObjectFragmentOf(frag, shape) ==
  /\ "type" \in DOMAIN frag /\ frag.type = "object"
  /\ "properties" \in DOMAIN frag
  /\ DOMAIN frag.properties = { shape[i].key : i \in 1..Len(shape) }
  /\ DOMAIN frag \subseteq {"type", "properties", "required", "description", "nullable"}
  /\ IF RequiredKeys(shape) = <<>>
     THEN "required" \notin DOMAIN frag
     ELSE "required" \in DOMAIN frag /\ frag.required = RequiredKeys(shape)
  /\ \A i \in 1..Len(shape) :
       ~HasNamedLayer(shape[i].value) =>
         frag.properties[shape[i].key] =
           zodToOpenApiSchema(shape[i].value,
                              IF zin.context THEN NewContext ELSE NoContext,
                              FALSE).result

\* { id: z.string(), age: z.number().optional() }
ExampleObject ==
  ZObject(<< [key |-> "id", value |-> Leaf("ZodString", NoText, NoText)],
             [key |-> "age", value |-> Wrapper("ZodOptional",
                                                Leaf("ZodNumber", NoText, NoText),
                                                NoText, NoText)] >>,
          NoText, NoText)

ExampleFragment ==
  [type |-> "object",
   properties |-> [id |-> [type |-> "string"], age |-> [type |-> "number"]],
   required |-> <<"id">>]

\* C10: converting an object schema yields type 'object', properties with
\* exactly one converted entry per declared field, and required listing
\* exactly the non-optional fields in declaration order (no required key when
\* every field is optional); { id: string, age: optional number } gives the
\* fragment of the example.  A named object converted with a context is
\* referenced, and its component entry is that fragment.
C10_ObjectFragment ==
  (zout.done /\ zin.schema.typeName = "ZodObject") =>
    /\ IF TookRefBranch
       THEN IsObjectFragmentOf(zout.context.schemas[zin.schema.openApiName],
                               zin.schema.shape)
       ELSE IsObjectFragmentOf(zout.result, zin.schema.shape)
    /\ zin.schema = ExampleObject => zout.result = ExampleFragment

\* the example object was converted
C10_Witness ==
  /\ zout.done
  /\ zin.schema = ExampleObject
  /\ zout.result = ExampleFragment

\* the fragment of a schema, converted with the context and options of this call
FragmentOf(sch) ==
  zodToOpenApiSchema(sch, IF zin.context THEN NewContext ELSE NoContext,
                     zin.asComponent).result

\* a wrapper layer as optional(), nullable(), default() and refine() create it: it has
\* no name of its own, and no description but the one of the schema it wraps
IsPlainLayer(sch) ==
  /\ sch.typeName \in WrapperKinds
  /\ sch.openApiName = NoText
  /\ sch.description \in {NoText, InnerOf(sch).description}

RECURSIVE AllPlainLayers(_)
\* every layer of the wrapper chain is such a layer
AllPlainLayers(sch) ==
  sch.typeName \in WrapperKinds => (IsPlainLayer(sch) /\ AllPlainLayers(InnerOf(sch)))

RECURSIVE HasNullableLayer(_)
\* there is a nullable layer somewhere in the wrapper chain
HasNullableLayer(sch) ==
  /\ sch.typeName \in WrapperKinds
  /\ (sch.typeName = "ZodNullable" \/ HasNullableLayer(InnerOf(sch)))

RECURSIVE BaseOf(_)
\* the schema under all the wrapper layers
BaseOf(sch) == IF sch.typeName \in WrapperKinds THEN BaseOf(InnerOf(sch)) ELSE sch

\* the fragment is the one of the wrapped schema, with nullable: true if asked for
IsFragmentOfWrapped(fragment, wrapped, nullable) ==
  fragment = IF nullable THEN ("nullable" :> TRUE) @@ wrapped ELSE wrapped

\* C16: the fragment of a schema wrapped in an optional, default or refinement layer is
\* the fragment of the schema it wraps, and the fragment of a schema wrapped in a
\* nullable layer is that fragment with nullable: true and nothing else; so a chain of
\* such layers, in any order, gives the fragment of the schema under them, with
\* nullable: true exactly when one of the layers is a nullable one.
C16_WrappersKeepFragment ==
  zout.done =>
    /\ IsPlainLayer(zin.schema) =>
         IsFragmentOfWrapped(zout.result, FragmentOf(InnerOf(zin.schema)),
                             zin.schema.typeName = "ZodNullable")
    /\ (zin.schema.typeName \in WrapperKinds /\ AllPlainLayers(zin.schema)) =>
         IsFragmentOfWrapped(zout.result, FragmentOf(BaseOf(zin.schema)),
                             HasNullableLayer(zin.schema))

\* an optional layer over a nullable layer over a described schema was converted
C16_Witness ==
  /\ zout.done
  /\ zin.schema.typeName = "ZodOptional"
  /\ InnerOf(zin.schema).typeName = "ZodNullable"
  /\ AllPlainLayers(zin.schema)
  /\ BaseOf(zin.schema).description # NoText
  /\ "nullable" \in DOMAIN zout.result
  /\ "description" \in DOMAIN zout.result


(***************************************************************************)
(* Properties of buildOpenApi (specification SpecDoc)                      *)
(*                                                                         *)
(* built records the last generation: the routes and options it was given  *)
(* and the context it ended with; doc is the document it returned.         *)
(***************************************************************************)
Generated == built.done

\* the operation entries of a document, as (path, method) pairs
Operations(d) ==
  UNION { { <<p, m>> : m \in DOMAIN d.paths[p] } : p \in DOMAIN d.paths }
\* the distinct (path, method) pairs declared on the router
DeclaredPairs(rs) == { <<rs[i].path, rs[i].method>> : i \in DOMAIN rs }
\* the same pairs with the path as the document spells it
ConvertedPairs(rs, options) ==
  { <<DocPath(rs[i], options), rs[i].method>> : i \in DOMAIN rs }

\* C5 as stated: the operation entries of the document are the declared (path, method)
\* pairs, each at paths[converted path][method], one entry for each distinct pair.
C5_Original ==
  Generated =>
    /\ Operations(doc) = ConvertedPairs(built.routes, built.options)
    /\ Cardinality(Operations(doc)) = Cardinality(DeclaredPairs(built.routes))

\* C5 (amended): the document holds exactly one operation entry per distinct
\* (converted path, method) pair of the declared routes, at
\* paths[converted path][method], and no other operation entries.
C5_OnePerConvertedPair ==
  Generated => Operations(doc) = ConvertedPairs(built.routes, built.options)

\* a document generated from two routes that share the path and differ in the method
C5_Witness ==
  /\ Generated
  /\ Len(built.routes) = 2
  /\ built.routes[1].path = built.routes[2].path
  /\ built.routes[1].method # built.routes[2].method
  /\ Cardinality(Operations(doc)) = 2

\* route i is the one whose operation the document keeps for its path and method
Documented(rs, options, i) ==
  \A j \in DOMAIN rs :
    j > i => <<DocPath(rs[j], options), rs[j].method>>
               # <<DocPath(rs[i], options), rs[i].method>>
OperationOf(d, r, options) == d.paths[DocPath(r, options)][r.method]
ParametersOf(op) == IF "parameters" \in DOMAIN op THEN op.parameters ELSE <<>>
\* name and location of each parameter of a list
NameAndLocation(ps) == [i \in DOMAIN ps |-> <<ps[i].name, ps[i].in>>]
Occurrences(s, x) == Cardinality({ i \in DOMAIN s : s[i] = x })
\* two lists hold the same members, each as often
SameMembers(s, t) ==
  \A x \in { s[i] : i \in DOMAIN s } \cup { t[i] : i \in DOMAIN t } :
    Occurrences(s, x) = Occurrences(t, x)

RECURSIVE DeclaredShape(_)
\* the fields an input schema declares, also under optional, nullable, default or
\* effects (refine, transform)
DeclaredShape(sch) ==
  IF sch.typeName = "ZodObject" THEN sch.shape
  ELSE IF sch.typeName \in WrapperKinds THEN DeclaredShape(InnerOf(sch))
  ELSE <<>>
\* the fields of an input schema that is an object schema itself
OwnShape(sch) == IF sch.typeName = "ZodObject" THEN sch.shape ELSE <<>>

FieldsAt(shape, in) == [i \in DOMAIN shape |-> <<shape[i].key, in>>]
DeclaredParameters(request) ==
  (IF "params" \in DOMAIN request
   THEN FieldsAt(DeclaredShape(request.params), "path") ELSE <<>>)
  \o (IF "query" \in DOMAIN request
      THEN FieldsAt(DeclaredShape(request.query), "query") ELSE <<>>)
  \o (IF "headers" \in DOMAIN request
      THEN FieldsAt(DeclaredShape(request.headers), "header") ELSE <<>>)
OwnParameters(request) ==
  (IF "params" \in DOMAIN request
   THEN FieldsAt(OwnShape(request.params), "path") ELSE <<>>)
  \o (IF "query" \in DOMAIN request
      THEN FieldsAt(OwnShape(request.query), "query") ELSE <<>>)
  \o (IF "headers" \in DOMAIN request
      THEN FieldsAt(OwnShape(request.headers), "header") ELSE <<>>)

\* C6 as stated: the parameters of a route's operation are, one each, the fields its
\* params, query and headers schemas declare, with the field's name and the location
\* 'path', 'query' or 'header', and no others.
C6_Original ==
  Generated =>
    \A i \in DOMAIN built.routes :
      Documented(built.routes, built.options, i) =>
        SameMembers(
          NameAndLocation(ParametersOf(OperationOf(doc, built.routes[i], built.options))),
          DeclaredParameters(built.routes[i].request))

\* C6 (amended): for every declared route whose operation the document keeps, the
\* parameters are, one each, the fields of those of its params, query and headers
\* schemas that are object schemas themselves (z.object(..), not wrapped), with the
\* field's name and the location 'path', 'query' or 'header', and no others; a
\* params, query or headers schema of another kind contributes no parameter.
C6_ParametersOfObjectSchemas ==
  Generated =>
    \A i \in DOMAIN built.routes :
      Documented(built.routes, built.options, i) =>
        SameMembers(
          NameAndLocation(ParametersOf(OperationOf(doc, built.routes[i], built.options))),
          OwnParameters(built.routes[i].request))

\* a documented route with a query field and a header field, both among its parameters
C6_Witness ==
  /\ Generated
  /\ \E i \in DOMAIN built.routes :
       /\ Documented(built.routes, built.options, i)
       /\ {"query", "headers"} \subseteq DOMAIN built.routes[i].request
       /\ LET ps == NameAndLocation(ParametersOf(OperationOf(doc, built.routes[i],
                                                             built.options)))
          IN  {"query", "header"} \subseteq { ps[k][2] : k \in DOMAIN ps }

RECURSIVE NamesIn(_)
\* the names given with withSchemaName anywhere in a schema tree
NamesIn(sch) ==
  (IF sch.openApiName # NoText THEN {sch.openApiName} ELSE {})
  \cup
  (CASE sch.typeName \in WrapperKinds -> NamesIn(InnerOf(sch))
     [] sch.typeName = "ZodArray" -> NamesIn(sch.type)
     [] sch.typeName = "ZodObject" ->
          UNION { NamesIn(sch.shape[i].value) : i \in DOMAIN sch.shape }
     [] sch.typeName = "ZodUnion" ->
          UNION { NamesIn(sch.options[i]) : i \in DOMAIN sch.options }
     [] OTHER -> {})
\* the names of the schemas a route uses
NamesUsedBy(r) ==
  UNION { NamesIn(r.request[f]) : f \in DOMAIN r.request }
  \cup UNION { NamesIn(r.responses[c]) : c \in DOMAIN r.responses }
NamesUsed(rs) == UNION { NamesUsedBy(rs[i]) : i \in DOMAIN rs }

RECURSIVE RefsOf(_)
\* the $ref values occurring in a fragment
RefsOf(frag) ==
  (IF "$ref" \in DOMAIN frag THEN {frag["$ref"]} ELSE {})
  \cup (IF "items" \in DOMAIN frag THEN RefsOf(frag.items) ELSE {})
  \cup (IF "properties" \in DOMAIN frag
        THEN UNION { RefsOf(frag.properties[k]) : k \in DOMAIN frag.properties }
        ELSE {})
  \cup (IF "oneOf" \in DOMAIN frag
        THEN UNION { RefsOf(frag.oneOf[i]) : i \in DOMAIN frag.oneOf }
        ELSE {})
\* the schema fragments of an operation
OperationSchemas(op) ==
  { ParametersOf(op)[i].schema : i \in DOMAIN ParametersOf(op) }
  \cup (IF "requestBody" \in DOMAIN op
        THEN {op.requestBody.content["application/json"].schema} ELSE {})
  \cup { op.responses[c].content["application/json"].schema : c \in DOMAIN op.responses }
\* the component table of a document; a document without components has none
ComponentSchemas(d) ==
  IF "components" \in DOMAIN d THEN d.components.schemas ELSE EmptyFragment
\* the $ref values occurring anywhere in a document
RefsIn(d) ==
  UNION { RefsOf(x) :
            x \in UNION { OperationSchemas(d.paths[pm[1]][pm[2]]) : pm \in Operations(d) } }
  \cup UNION { RefsOf(ComponentSchemas(d)[n]) : n \in DOMAIN ComponentSchemas(d) }
Resolves(d, ref) == \E n \in DOMAIN ComponentSchemas(d) : ref = RefTo(n)

\* every $ref of the document has its entry in components.schemas
RefsResolve == Generated => \A ref \in RefsIn(doc) : Resolves(doc, ref)

\* C7 as stated: every name given with withSchemaName to a schema that a route uses has
\* its (one) entry in components.schemas, and every $ref of the document has an entry.
C7_NamedSchemasRegistered ==
  Generated =>
    /\ \A n \in NamesUsed(built.routes) : n \in DOMAIN ComponentSchemas(doc)
    /\ \A ref \in RefsIn(doc) : Resolves(doc, ref)

\* the names under which conversions of different schemas began during the generation
CollidingNames(started) ==
  { started[i].name : i \in { i \in DOMAIN started :
      \E j \in DOMAIN started : /\ started[j].name = started[i].name
                                /\ started[j].schema # started[i].schema } }
\* the first call of a history that satisfies a condition on its index
FirstOf(started, I) == started[Min(I)]
FirstStarted(started, n) ==
  FirstOf(started, { i \in DOMAIN started : started[i].name = n })
FirstStartedWithContext(started, n) ==
  FirstOf(started, { i \in DOMAIN started : started[i].name = n /\ started[i].withContext })
\* what converting a schema as a component yields
AsComponent(sch) == zodToOpenApiSchema(sch, NewContext, TRUE).result

\* C8 as stated: when conversions of different schemas with one name began during a
\* generation, the entry for the name is the conversion of the schema whose conversion
\* began first.
C8_FirstStartedWins ==
  Generated =>
    \A n \in CollidingNames(built.context.started) :
      /\ n \in DOMAIN ComponentSchemas(doc)
      /\ ComponentSchemas(doc)[n] = AsComponent(FirstStarted(built.context.started, n).schema)

\* among the conversions that were given the component table, the first one wins
FirstRegisteredWins ==
  Generated =>
    \A n \in DOMAIN ComponentSchemas(doc) :
      ComponentSchemas(doc)[n]
        = AsComponent(FirstStartedWithContext(built.context.started, n).schema)

\* C11 as stated: every generated document has the four top-level keys openapi, info,
\* paths and components, with openapi equal to '3.0.0'.
C11_Original ==
  Generated =>
    /\ {"openapi", "info", "paths", "components"} \subseteq DOMAIN doc
    /\ doc.openapi = "3.0.0"

\* C11 (amended): every generated document has the keys openapi, info and paths, with
\* openapi equal to '3.0.0'; it has the key components exactly when the generation
\* registered at least one named schema, and components.schemas then holds them.
C11_ComponentsWhenNamedSchemas ==
  Generated =>
    /\ {"openapi", "info", "paths"} \subseteq DOMAIN doc
    /\ doc.openapi = "3.0.0"
    /\ "components" \in DOMAIN doc <=> DOMAIN built.context.schemas # {}
    /\ "components" \in DOMAIN doc => doc.components.schemas = built.context.schemas

\* a document generated from routes none of which registers a named schema
C11_Witness ==
  /\ Generated
  /\ built.routes # <<>>
  /\ DOMAIN doc = {"openapi", "info", "paths"}

\* the characters a parameter name is made of
NameCharacters == {"a", "b", "v"}
RECURSIVE NameLength(_)
NameLength(p) ==
  IF p = <<>> \/ Head(p) \notin NameCharacters THEN 0 ELSE 1 + NameLength(Tail(p))
RECURSIVE RewriteParameters(_)
\* a path with each ':name' written '{name}' and every other character kept
RewriteParameters(p) ==
  IF p = <<>> THEN <<>>
  ELSE IF Head(p) = ":" /\ NameLength(Tail(p)) > 0
       THEN <<"{">> \o SubSeq(p, 2, NameLength(Tail(p)) + 1) \o <<"}">>
            \o RewriteParameters(SubSeq(p, NameLength(Tail(p)) + 2, Len(p)))
       ELSE <<Head(p)>> \o RewriteParameters(Tail(p))
HasParameterMarker(p) == \E i \in DOMAIN p : p[i] = ":"

\* C12 as stated: the path keys of the document are the routes' paths, prefixed by
\* basePath, with each ':name' written '{name}' and nothing else changed; no path key
\* contains a ':'.
C12_PathKeysRewritten ==
  Generated =>
    /\ DOMAIN doc.paths
         = { RewriteParameters(built.options.basePath \o built.routes[i].path) :
               i \in DOMAIN built.routes }
    /\ \A p \in DOMAIN doc.paths : ~HasParameterMarker(p)
RECURSIVE NamedIn(_)
\* the schema objects that carry a name, anywhere in a schema tree
NamedIn(sch) ==
  (IF sch.openApiName # NoText THEN {sch} ELSE {})
  \cup
  (CASE sch.typeName \in WrapperKinds -> NamedIn(InnerOf(sch))
     [] sch.typeName = "ZodArray" -> NamedIn(sch.type)
     [] sch.typeName = "ZodObject" ->
          UNION { NamedIn(sch.shape[i].value) : i \in DOMAIN sch.shape }
     [] sch.typeName = "ZodUnion" ->
          UNION { NamedIn(sch.options[i]) : i \in DOMAIN sch.options }
     [] OTHER -> {})
\* the schema objects with a name that a route uses
NamedUsedBy(r) ==
  UNION { NamedIn(r.request[f]) : f \in DOMAIN r.request }
  \cup UNION { NamedIn(r.responses[c]) : c \in DOMAIN r.responses }
\* the names that one schema object only carries among the schemas the routes use
SingleNames(rs) ==
  { n \in NamesUsed(rs) :
      Cardinality({ sch \in UNION { NamedUsedBy(rs[i]) : i \in DOMAIN rs } :
                      sch.openApiName = n }) = 1 }
\* the same declarations, in every order
Orders(rs) == { [i \in DOMAIN rs |-> rs[perm[i]]] : perm \in Permutations(DOMAIN rs) }
\* the component table of the document generated from a route list
ComponentsFrom(rs, options) == ComponentSchemas(buildOpenApi(rs, options).doc)
\* two component tables have the same entry, or both none, for a name
SameEntry(a, b, n) ==
  /\ n \in DOMAIN a <=> n \in DOMAIN b
  /\ n \in DOMAIN a => a[n] = b[n]

\* C21 as stated: the entry in components.schemas of a name that a single schema carries
\* is the same in whatever order the routes that use the schema are declared.
C21_EntryIndependentOfOrder ==
  Generated =>
    \A n \in SingleNames(built.routes) :
      \A rs \in Orders(built.routes) :
        SameEntry(ComponentSchemas(doc), ComponentsFrom(rs, built.options), n)

RECURSIVE WrappedNames(_)
\* the names reached through a wrapper layer that has no name itself
WrappedNames(sch) ==
  (IF sch.typeName \in WrapperKinds /\ sch.openApiName = NoText
   THEN {unwrapZodType(sch).openApiName} \ {NoText} ELSE {})
  \cup
  (CASE sch.typeName \in WrapperKinds -> WrappedNames(InnerOf(sch))
     [] sch.typeName = "ZodArray" -> WrappedNames(sch.type)
     [] sch.typeName = "ZodObject" ->
          UNION { WrappedNames(sch.shape[i].value) : i \in DOMAIN sch.shape }
     [] sch.typeName = "ZodUnion" ->
          UNION { WrappedNames(sch.options[i]) : i \in DOMAIN sch.options }
     [] OTHER -> {})
WrappedNamesUsedBy(r) ==
  UNION { WrappedNames(r.request[f]) : f \in DOMAIN r.request }
  \cup UNION { WrappedNames(r.responses[c]) : c \in DOMAIN r.responses }

\* when no reference to the name is made under a wrapper, the entry does not depend on
\* the order of the declarations
UnwrappedEntryIndependentOfOrder ==
  Generated =>
    \A n \in SingleNames(built.routes)
             \ UNION { WrappedNamesUsedBy(built.routes[i]) : i \in DOMAIN built.routes } :
      \A rs \in Orders(built.routes) :
        SameEntry(ComponentSchemas(doc), ComponentsFrom(rs, built.options), n)


(***************************************************************************)
(* Properties of TypedRouter (specification SpecRouter)                    *)
(***************************************************************************)
\* C13: after any sequence of route, get, post, put, patch, delete, register,
\* getRoutes and buildOpenApi calls, and of changes to arrays that getRoutes returned,
\* the router's list is the declared definitions in declaration order.
C13_RoutesAreTheDeclarations == routes = declared

\* declarations, a register call and a generation were made, and the array from
\* getRoutes was changed by its caller
C13_Witness ==
  /\ Len(routes) >= 2
  /\ mounted # <<>>
  /\ Generated
  /\ copy.mutated
  /\ copy.items # routes

\* the mounts a register call made are the routes of a list, one each and in order,
\* each under its route's method and path
MountsOf(call, rs) ==
  /\ Len(call.mounts) = Len(rs)
  /\ \A i \in DOMAIN rs :
       /\ call.mounts[i].method = rs[i].method
       /\ call.mounts[i].path = rs[i].path
       /\ call.mounts[i].wrapped = rs[i]
IsPrefix(s, t) == Len(s) <= Len(t) /\ s = SubSeq(t, 1, Len(s))

\* C18: every register call mounted the routes that were in the router's list when it
\* was made, each exactly once, in declaration order, under the route's own method
\* and path; the list is as the call found it, but for the routes declared later,
\* which the call did not mount.
C18_RegisterMountsTheList ==
  \A k \in DOMAIN mounted :
    /\ MountsOf(mounted[k], mounted[k].listed)
    /\ IsPrefix(mounted[k].listed, routes)
    /\ IsPrefix(mounted[k].listed, declared)

\* a register call that mounted a route, and a route declared after it
C18_Witness ==
  /\ mounted # <<>>
  /\ mounted[1].mounts # <<>>
  /\ Len(routes) > Len(mounted[1].mounts)

(***************************************************************************)
(* Properties of the calls of zodToOpenApiSchema (specification SpecSteps) *)
(***************************************************************************)
\* the steps, taken one by one, register the names the conversion registers
StepsAgree ==
  zout.done =>
    zout.registered
      = DOMAIN zodToOpenApiSchema(zin.schema,
                                  IF zin.context THEN NewContext ELSE NoContext,
                                  zin.asComponent).context.schemas

RECURSIVE SumOver(_)
\* the sum of a sequence of numbers
SumOver(ns) == IF ns = <<>> THEN 0 ELSE Head(ns) + SumOver(Tail(ns))

RECURSIVE Size(_)
\* the number of schema objects in a schema tree
Size(sch) ==
  1 + (CASE sch.typeName \in WrapperKinds -> Size(InnerOf(sch))
         [] sch.typeName = "ZodArray" -> Size(sch.type)
         [] sch.typeName = "ZodObject" ->
              SumOver([i \in DOMAIN sch.shape |-> Size(sch.shape[i].value)])
         [] sch.typeName = "ZodUnion" ->
              SumOver([i \in DOMAIN sch.options |-> Size(sch.options[i])])
         [] OTHER -> 0)

\* C15: a call of zodToOpenApiSchema on a finite schema tree, with or without a
\* context and whatever names and wrappers the tree holds, terminates: it makes at
\* most two calls per schema object of the tree (the re-entrant ones included), the
\* steps it still has to take never exceed what the call stack holds, so that it is
\* never left with a call it cannot make, and when all calls have returned it has
\* returned exactly one fragment.
C15_Terminates ==
  /\ zout.calls <= 2 * Size(zin.schema)
  /\ ~zout.done => Len(zout.stack) <= MaxPending
  /\ zout.done <=> Len(zout.results) = 1
  /\ zout.done => zout.stack = <<>>

\* a call on a named object with a named field, with a context: it ended after two
\* re-entrant calls
C15_Witness ==
  /\ zout.done
  /\ zin.context /\ ~zin.asComponent
  /\ zin.schema.typeName = "ZodObject"
  /\ zout.registered = {"M", "N"}
  /\ zout.calls >= 5

====
